---- MODULE Spec2Model ----
(***************************************************************************)
(* Model of zegami_sdk/annotation.py: the annotation entity (_Annotation,  *)
(* AnnotationMask) and the mask encoding functions (parse_bool_masks,      *)
(* get_bool_mask_bounds, create_uploadable).                               *)
(*                                                                         *)
(* Python values are modelled as follows.                                  *)
(*  - a numpy array is a record [type, dtype, shape, data]; shape is the   *)
(*    tuple of dimensions and data maps every 0-based index tuple to the   *)
(*    element (a bool element is 0 or 1, as numpy stores it);              *)
(*  - a dict is a TLA+ record (a function on its keys);                    *)
(*  - a str that the code builds is a sequence of one-character strings;   *)
(*  - the outcome of a call is [kind, value, work]: kind "ok" or the name  *)
(*    of the exception raised, value the returned object or what the       *)
(*    exception's message names, work the stages that ran before the call  *)
(*    ended.                                                               *)
(***************************************************************************)
EXTENDS Integers, Sequences, FiniteSets, TLC

VARIABLES bool_mask, call, result, annotation, lookup, changes

vars == <<bool_mask, call, result, annotation, lookup, changes>>

(***************************************************************************)
(* Bounds of the model.                                                    *)
(***************************************************************************)
\* largest number of elements of a boolean input array
MaxCells == 8
\* largest number of elements of an integer (non-boolean) input array
MaxIntCells == 4

None == "None"

(***************************************************************************)
(* numpy arrays                                                            *)
(***************************************************************************)
Ranks == 1..4

Prod(shape) ==
  CASE Len(shape) = 0 -> 1
    [] Len(shape) = 1 -> shape[1]
    [] Len(shape) = 2 -> shape[1] * shape[2]
    [] Len(shape) = 3 -> shape[1] * shape[2] * shape[3]
    [] Len(shape) = 4 -> shape[1] * shape[2] * shape[3] * shape[4]

\* the index tuples of an array of the given shape (0-based, as numpy's)
Idx(shape) ==
  CASE Len(shape) = 1 -> {<<i>> : i \in 0..(shape[1] - 1)}
    [] Len(shape) = 2 ->
         {<<i, j>> : i \in 0..(shape[1] - 1), j \in 0..(shape[2] - 1)}
    [] Len(shape) = 3 ->
         {<<i, j, k>> : i \in 0..(shape[1] - 1), j \in 0..(shape[2] - 1),
                        k \in 0..(shape[3] - 1)}
    [] Len(shape) = 4 ->
         {<<i, j, k, l>> : i \in 0..(shape[1] - 1), j \in 0..(shape[2] - 1),
                           k \in 0..(shape[3] - 1), l \in 0..(shape[4] - 1)}

ndarray(dtype, shape, data) ==
  [type |-> "ndarray", dtype |-> dtype, shape |-> shape, data |-> data]

Shapes(n) ==
  UNION {{s \in [1..r -> 1..n] : Prod(s) <= n} : r \in Ranks}

\* every boolean array of rank 1..4 with at most MaxCells elements
BoolArrays ==
  UNION {{ndarray("bool", s, d) : d \in [Idx(s) -> {0, 1}]} : s \in Shapes(MaxCells)}

\* every integer 0/1 array of rank 1..4 with at most MaxIntCells elements
IntArrays ==
  UNION {{ndarray("int64", s, d) : d \in [Idx(s) -> {0, 1}]} : s \in Shapes(MaxIntCells)}

\* the 4x4 mask whose true pixels are the 2x2 square at rows 1-2, columns 1-2
SquareMask ==
  ndarray("bool", <<4, 4>>,
          [idx \in Idx(<<4, 4>>) |->
             IF idx[1] \in {1, 2} /\ idx[2] \in {1, 2} THEN 1 ELSE 0])

\* a value that is not a numpy array (a Python list)
PyList == [type |-> "list", dtype |-> None, shape |-> <<>>, data |-> <<>>]

Inputs == BoolArrays \cup IntArrays \cup {SquareMask, PyList}

InsertAt(idx, p, k) == SubSeq(idx, 1, p - 1) \o <<k>> \o SubSeq(idx, p, Len(idx))

RemoveAt(s, p) == SubSeq(s, 1, p - 1) \o SubSeq(s, p + 1, Len(s))

\* np.expand_dims(a, -1): a trailing axis of length 1
expand_dims(a) ==
  [a EXCEPT !.shape = Append(a.shape, 1),
            !.data = [idx \in Idx(Append(a.shape, 1)) |->
                        a.data[SubSeq(idx, 1, Len(a.shape))]]]

\* a[:, :, 0] of an array of rank >= 3: the third axis is dropped at index 0
slice_plane0(a) ==
  LET shape == RemoveAt(a.shape, 3)
  IN  [a EXCEPT !.shape = shape,
                !.data = [idx \in Idx(shape) |-> a.data[InsertAt(idx, 3, 0)]]]

\* np.all in the place of np.any: logical AND along the axis
np_all(a, ax) ==
  LET shape == RemoveAt(a.shape, ax + 1)
  IN  ndarray("bool", shape,
              [idx \in Idx(shape) |->
                 IF \A k \in 0..(a.shape[ax + 1] - 1) :
                      a.data[InsertAt(idx, ax + 1, k)] # 0
                 THEN 1 ELSE 0])

\* np.any(a, axis=ax) with ax 0-based: logical OR along that axis
np_any(a, ax) ==
  LET shape == RemoveAt(a.shape, ax + 1)
  IN  ndarray("bool", shape,
              [idx \in Idx(shape) |->
                 IF \E k \in 0..(a.shape[ax + 1] - 1) :
                      a.data[InsertAt(idx, ax + 1, k)] # 0
                 THEN 1 ELSE 0])

\* the number of nonzero elements whose first index is i
CountFirst(v, i) == Cardinality({idx \in Idx(v.shape) : idx[1] = i /\ v.data[idx] # 0})

RECURSIVE Repeat(_, _)
Repeat(x, n) == IF n = 0 THEN <<>> ELSE <<x>> \o Repeat(x, n - 1)

\* np.where(v)[0]: the first index of every nonzero element, in row-major order
RECURSIVE where0From(_, _)
where0From(v, i) ==
  IF i >= v.shape[1] THEN <<>>
  ELSE Repeat(i, CountFirst(v, i)) \o where0From(v, i + 1)

np_where0(v) == where0From(v, 0)

(***************************************************************************)
(* Outcomes of a call                                                      *)
(***************************************************************************)
Return(v, work) == [kind |-> "ok", value |-> v, work |-> work]

Raise(exc, what, work) == [kind |-> exc, value |-> what, work |-> work]

Stage(name, shape) == [stage |-> name, shape |-> shape]

(***************************************************************************)
(* AnnotationMask.parse_bool_masks                                         *)
(***************************************************************************)
\* the trailing axis inserted whether or not the array already has three
parse_bool_masks_always_expand(bool_masks) ==
  IF bool_masks.type # "ndarray"
    THEN Raise("AssertionError", "numpy array", <<>>)
  ELSE IF bool_masks.dtype # "bool"
    THEN Raise("AssertionError", "dtype", <<>>)
  ELSE IF Len(bool_masks.shape) \in {2, 3}
    THEN Return(expand_dims(bool_masks), <<>>)
  ELSE Return(bool_masks, <<>>)

parse_bool_masks(bool_masks) ==
  IF bool_masks.type # "ndarray"
    THEN Raise("AssertionError", "numpy array", <<>>)
  ELSE IF bool_masks.dtype # "bool"
    THEN Raise("AssertionError", "dtype", <<>>)
  ELSE IF Len(bool_masks.shape) = 2
    THEN Return(expand_dims(bool_masks), <<>>)
  ELSE Return(bool_masks, <<>>)

(***************************************************************************)
(* AnnotationMask.get_bool_mask_bounds                                     *)
(***************************************************************************)
Bounds(top, bottom, left, right) ==
  [top |-> top, bottom |-> bottom, left |-> left, right |-> right]

\* the empty mask reported by a sentinel in the place of zeros
first_last_sentinel(r, c) ==
  IF Len(r) = 0 \/ Len(c) = 0
    THEN Bounds(-1, -1, -1, -1)
    ELSE Bounds(r[1], r[Len(r)], c[1], c[Len(c)])

\* top, bottom = r[[0, -1]]; left, right = c[[0, -1]]; indexing an empty
\* array raises IndexError and the bare except sets all four edges to 0
first_last(r, c) ==
  IF Len(r) = 0 \/ Len(c) = 0
    THEN Bounds(0, 0, 0, 0)
    ELSE Bounds(r[1], r[Len(r)], c[1], c[Len(c)])

get_bool_mask_bounds(mask) ==
  LET parsed == parse_bool_masks(mask)
  IN  IF parsed.kind # "ok" THEN parsed
      ELSE IF Len(parsed.value.shape) < 3
        \* [:, :, 0] on an array of rank 1: too many indices
        THEN Raise("IndexError", "too many indices", <<>>)
      ELSE
        LET plane == slice_plane0(parsed.value)
            rows == np_any(plane, 1)
            cols == np_any(plane, 0)
            r == np_where0(rows)
            c == np_where0(cols)
            work == <<Stage("slice", parsed.value.shape),
                      Stage("any", plane.shape)>>
        IN  Return(first_last(r, c), work)

(***************************************************************************)
(* The 1-bit PNG data URI                                                  *)
(***************************************************************************)
\* bool_mask.astype('uint8') * 255
astype_uint8_x255(a) ==
  ndarray("uint8", a.shape, [idx \in Idx(a.shape) |-> (a.data[idx] * 255) % 256])

\* Image.fromarray of a 2-D uint8 array: mode L, size (width, height)
Image_fromarray(a) ==
  [mode |-> "L", size |-> <<a.shape[2], a.shape[1]>>,
   px |-> [xy \in {<<x, y>> : x \in 0..(a.shape[2] - 1), y \in 0..(a.shape[1] - 1)} |->
             a.data[<<xy[2], xy[1]>>]]]

\* Image.convert('1'): a pixel above the threshold becomes 255, any other 0
\* (the error the default dither diffuses is zero for pixels 0 and 255)
Image_convert_1(im) ==
  [im EXCEPT !.mode = "1",
             !.px = [xy \in DOMAIN im.px |-> IF im.px[xy] > 128 THEN 255 ELSE 0]]

RECURSIVE Pow2(_)
Pow2(n) == IF n = 0 THEN 1 ELSE 2 * Pow2(n - 1)

Bit(im, x, y) == IF x < im.size[1] /\ im.px[<<x, y>>] # 0 THEN 1 ELSE 0

RECURSIVE PackByte(_, _, _, _)
PackByte(im, y, b, k) ==
  IF k = 8 THEN 0
  ELSE Bit(im, 8 * b + k, y) * Pow2(7 - k) + PackByte(im, y, b, k + 1)

\* one scanline: the filter byte, then the pixels eight to a byte, first
\* pixel in the high bit, the last byte padded with zero bits
Scanline(im, y) ==
  <<0>> \o [b \in 1..((im.size[1] + 7) \div 8) |-> PackByte(im, y, b - 1, 0)]

RECURSIVE Scanlines(_, _)
Scanlines(im, y) ==
  IF y >= im.size[2] THEN <<>> ELSE Scanline(im, y) \o Scanlines(im, y + 1)

U32BE(n) ==
  <<(n \div 16777216) % 256, (n \div 65536) % 256, (n \div 256) % 256, n % 256>>

\* Image.save(buffer, format='PNG') of a mode-1 image: the signature, the
\* header fields (width, height, bit depth 1, greyscale, no interlace) and
\* the scanlines.  Chunk framing, checksums and the lossless deflate stream
\* carry no further information and are left out.
PNG_save(im) ==
  <<137, 80, 78, 71, 13, 10, 26, 10>>
    \o U32BE(im.size[1]) \o U32BE(im.size[2]) \o <<1, 0, 0, 0, 0>>
    \o Scanlines(im, 0)

B64Alphabet ==
  <<
     "A", "B", "C", "D", "E", "F", "G", "H", "I", "J", "K", "L", "M", "N", "O", "P",
     "Q", "R", "S", "T", "U", "V", "W", "X", "Y", "Z", "a", "b", "c", "d", "e", "f",
     "g", "h", "i", "j", "k", "l", "m", "n", "o", "p", "q", "r", "s", "t", "u", "v",
     "w", "x", "y", "z", "0", "1", "2", "3", "4", "5", "6", "7", "8", "9", "+", "/">>

B64Char(n) == B64Alphabet[n + 1]

\* base64.b64encode(...).decode('utf-8')
RECURSIVE b64encode(_)
b64encode(bytes) ==
  IF Len(bytes) = 0 THEN <<>>
  ELSE IF Len(bytes) = 1 THEN
    <<B64Char(bytes[1] \div 4), B64Char((bytes[1] % 4) * 16), "=", "=">>
  ELSE IF Len(bytes) = 2 THEN
    <<B64Char(bytes[1] \div 4),
      B64Char((bytes[1] % 4) * 16 + bytes[2] \div 16),
      B64Char((bytes[2] % 16) * 4), "=">>
  ELSE
    <<B64Char(bytes[1] \div 4),
      B64Char((bytes[1] % 4) * 16 + bytes[2] \div 16),
      B64Char((bytes[2] % 16) * 4 + bytes[3] \div 64),
      B64Char(bytes[3] % 64)>>
      \o b64encode(SubSeq(bytes, 4, Len(bytes)))

DataUriPrefix ==
  <<"d", "a", "t", "a", ":", "i", "m", "a", "g", "e", "/", "p", "n", "g", ";", "b", "a", "s", "e", "6", "4", ",">>

\* "data:image/png;base64,{}".format(mask_b64.decode("utf-8"))
mask_string_of(mask) ==
  DataUriPrefix
    \o b64encode(PNG_save(Image_convert_1(Image_fromarray(astype_uint8_x255(mask)))))

(***************************************************************************)
(* int(class_id)                                                           *)
(***************************************************************************)
\* Python values given as class_id: an int, a float (in tenths), a str (a
\* sequence of characters) or None
PyIntValue(n) == [t |-> "int", n |-> n, s |-> <<>>]
PyFloatValue(tenths) == [t |-> "float", n |-> tenths, s |-> <<>>]
PyStrValue(chars) == [t |-> "str", n |-> 0, s |-> chars]
PyNoneValue == [t |-> "NoneType", n |-> 0, s |-> <<>>]

ClassIds ==
  {PyIntValue(3), PyFloatValue(-15), PyStrValue(<<"1", "2">>), PyStrValue(<<"x">>),
   PyNoneValue}

Digits == <<"0", "1", "2", "3", "4", "5", "6", "7", "8", "9">>

DigitValue(ch) == (CHOOSE d \in 1..10 : Digits[d] = ch) - 1

IsDigit(ch) == \E d \in 1..10 : Digits[d] = ch

RECURSIVE DecimalValue(_)
DecimalValue(chars) ==
  IF Len(chars) = 0 THEN 0
  ELSE 10 * DecimalValue(SubSeq(chars, 1, Len(chars) - 1)) + DigitValue(chars[Len(chars)])

\* int(x): an int as it is, a float truncated towards zero, a str of decimal
\* digits parsed; any other str is a ValueError, None a TypeError
PyInt(x, work) ==
  CASE x.t = "int" -> Return(x.n, work)
    [] x.t = "float" ->
         Return(IF x.n >= 0 THEN x.n \div 10 ELSE -((-x.n) \div 10), work)
    [] x.t = "str" ->
         IF Len(x.s) > 0 /\ \A i \in 1..Len(x.s) : IsDigit(x.s[i])
           THEN Return(DecimalValue(x.s), work)
           ELSE Raise("ValueError", "invalid literal for int()", work)
    [] OTHER -> Raise("TypeError", "int() argument", work)

(***************************************************************************)
(* _Annotation.create_uploadable and AnnotationMask.create_uploadable      *)
(***************************************************************************)
AnnotationMask_TYPE == "mask"

Annotation_create_uploadable(cls_TYPE) ==
  [type |-> cls_TYPE, format |-> None, annotation |-> None]

\* the shape asserted before the dtype
create_uploadable_asserts_shape_first(mask) ==
  IF mask.type # "ndarray"
    THEN Raise("AssertionError", "numpy array", <<>>)
  ELSE IF Len(mask.shape) # 2
    THEN Raise("AssertionError", "shape", <<>>)
  ELSE IF mask.dtype # "bool"
    THEN Raise("AssertionError", "dtype", <<>>)
  ELSE Return(None, <<>>)

\* the three assertions that open create_uploadable
create_uploadable_asserts(mask) ==
  IF mask.type # "ndarray"
    THEN Raise("AssertionError", "numpy array", <<>>)
  ELSE IF mask.dtype # "bool"
    THEN Raise("AssertionError", "dtype", <<>>)
  ELSE IF Len(mask.shape) # 2
    THEN Raise("AssertionError", "shape", <<>>)
  ELSE Return(None, <<>>)

\* width and height counted in pixels, both edges included
roi_of_inclusive(bounds) ==
  [xmin |-> bounds.left, xmax |-> bounds.right,
   ymin |-> bounds.top, ymax |-> bounds.bottom,
   width |-> bounds.right - bounds.left + 1,
   height |-> bounds.bottom - bounds.top + 1]

roi_of(bounds) ==
  [xmin |-> bounds.left, xmax |-> bounds.right,
   ymin |-> bounds.top, ymax |-> bounds.bottom,
   width |-> bounds.right - bounds.left,
   height |-> bounds.bottom - bounds.top]

\* h and w taken from the shape in the wrong order
mask_data_swapped(mask, mask_string, roi) ==
  [mask |-> mask_string, width |-> mask.shape[1], height |-> mask.shape[2],
   score |-> None, roi |-> roi]

\* the annotation payload; h, w = bool_mask.shape
mask_data(mask, mask_string, roi) ==
  [mask |-> mask_string, width |-> mask.shape[2], height |-> mask.shape[1],
   score |-> None, roi |-> roi]

create_uploadable(mask, class_id) ==
  IF create_uploadable_asserts(mask).kind # "ok"
    THEN create_uploadable_asserts(mask)
  ELSE
    LET mask_string == mask_string_of(mask)
        bounds == get_bool_mask_bounds(mask).value
        roi == roi_of(bounds)
        data == mask_data(mask, mask_string, roi)
        uploadable == [Annotation_create_uploadable(AnnotationMask_TYPE)
                         EXCEPT !.format = "1UC1", !.annotation = data]
        work == <<Stage("png", mask.shape), Stage("bounds", mask.shape)>>
        cid == PyInt(class_id, work)
    IN  IF cid.kind # "ok" THEN cid
        ELSE Return(("class_id" :> cid.value) @@ uploadable, work)

(***************************************************************************)
(* The calls of the mask functions                                         *)
(***************************************************************************)
NoCall == [op |-> "none", class_id |-> PyNoneValue, args |-> <<>>]

NoResult == [kind |-> "none", value |-> None, work |-> <<>>]

NoObject == [cls |-> None, _collection |-> None, _source |-> None, _data |-> <<>>]

Call_parse_bool_masks ==
  /\ call' = [NoCall EXCEPT !.op = "parse_bool_masks"]
  /\ result' = parse_bool_masks(bool_mask)
  /\ UNCHANGED <<bool_mask, annotation, lookup, changes>>

\* parse_bool_masks applied to the array it has just returned
Call_parse_bool_masks_again ==
  /\ call.op = "parse_bool_masks"
  /\ result.kind = "ok"
  /\ bool_mask' = result.value
  /\ call' = [NoCall EXCEPT !.op = "parse_bool_masks_again"]
  /\ result' = parse_bool_masks(result.value)
  /\ UNCHANGED <<annotation, lookup, changes>>

Call_get_bool_mask_bounds ==
  /\ call' = [NoCall EXCEPT !.op = "get_bool_mask_bounds"]
  /\ result' = get_bool_mask_bounds(bool_mask)
  /\ UNCHANGED <<bool_mask, annotation, lookup, changes>>

Call_create_uploadable ==
  \E class_id \in ClassIds :
    /\ call' = [NoCall EXCEPT !.op = "create_uploadable", !.class_id = class_id]
    /\ result' = create_uploadable(bool_mask, class_id)
    /\ UNCHANGED <<bool_mask, annotation, lookup, changes>>

InitMask ==
  /\ bool_mask \in Inputs
  /\ call = NoCall
  /\ result = NoResult
  /\ annotation = NoObject
  /\ lookup = <<>>
  /\ changes = 0

NextMask ==
  \/ Call_parse_bool_masks
  \/ Call_parse_bool_masks_again
  \/ Call_get_bool_mask_bounds
  \/ Call_create_uploadable

SpecMask == InitMask /\ [][NextMask]_vars

(***************************************************************************)
(* The annotation entity and its context                                   *)
(***************************************************************************)
\* largest number of entries of an image-index lookup table
MaxLookupLen == 2
\* largest number of times the collection's lookup tables are replaced
MaxChanges == 1

Collections == {"colA", "colB"}

Sources == {None, "srcA"}

ImageIndices == {0, 1}

Keys == Collections \X Sources

Tables == UNION {[1..n -> ImageIndices] : n \in 0..MaxLookupLen}

InitTable == <<0, 1>>

\* collection._get_image_meta_lookup(source): the table the collection holds
\* for the source at the moment of the call
get_image_meta_lookup(tables, collection, source) == tables[<<collection, source>>]

\* collection._get_imageset_id(source)
get_imageset_id(collection, source) == <<"imageset", collection, source>>

\* the masks whose uploadable became a stored record
StoredMasks ==
  {SquareMask,
   ndarray("bool", <<2, 3>>,
           [idx \in Idx(<<2, 3>>) |-> IF idx = <<1, 2>> THEN 1 ELSE 0])}

\* the stored annotation records of a mask: { image_index, type, annotation },
\* or one without the image_index key
RecordsOf(mask) ==
  LET uploadable == create_uploadable(mask, PyIntValue(3)).value
  IN  {[image_index |-> i, type |-> uploadable.type,
        annotation |-> uploadable.annotation] : i \in ImageIndices}
        \cup {[type |-> uploadable.type, annotation |-> uploadable.annotation]}

StoredRecords == [mask \in StoredMasks |-> RecordsOf(mask)]

Records(mask) == StoredRecords[mask]

\* _Annotation.__init__(self, collection, annotation_data, source)
Annotation_init(self, collection, annotation_data, source) ==
  [self EXCEPT !._collection = collection, !._source = source,
               !._data = annotation_data]

\* AnnotationMask.__init__: it hands the base initialiser eight positional
\* arguments after the bound self, and the base takes at most three
AnnotationMask_init(self, collection, row_index, source) ==
  LET given == 1 + Len(<<self, collection, row_index, source, None, None, None, None>>)
  IN  IF given > 4
        THEN Raise("TypeError", <<"__init__() positional arguments", given>>, <<>>)
        ELSE Return(Annotation_init(self, collection, row_index, source), <<>>)

collection(self) == Return(self._collection, <<>>)

source(self) == Return(self._source, <<>>)

\* a sentinel returned when the key is missing
image_index_sentinel(self) ==
  IF "image_index" \in DOMAIN self._data
    THEN Return(self._data.image_index, <<>>)
    ELSE Return(None, <<>>)

image_index(self) ==
  IF "image_index" \in DOMAIN self._data
    THEN Return(self._data.image_index, <<>>)
    ELSE Raise("AssertionError", "image_index", <<>>)

\* list.index(x): the 0-based position of the first element equal to x
list_index(list, x) ==
  IF \E p \in 1..Len(list) : list[p] = x
    THEN Return((CHOOSE p \in 1..Len(list) :
                   list[p] = x /\ \A q \in 1..(p - 1) : list[q] # x) - 1, <<>>)
    ELSE Raise("ValueError", "is not in list", <<>>)

\* the position computed from the table as it was at first, kept since
row_index_cached(self, tables) ==
  LET index == image_index(self)
  IN  IF index.kind # "ok" THEN index ELSE list_index(InitTable, index.value)

row_index(self, tables) ==
  LET table == get_image_meta_lookup(tables, collection(self).value, source(self).value)
      index == image_index(self)
  IN  IF index.kind # "ok" THEN index ELSE list_index(table, index.value)

imageset_id(self) ==
  Return(get_imageset_id(collection(self).value, source(self).value), <<>>)

\* AnnotationMask.mask_bool calls self._get_bool_arr(), which no class
\* defines; _Annotation has no mask_bool attribute at all
mask_bool(self) ==
  IF self.cls = "AnnotationMask"
    THEN Raise("AttributeError", "_get_bool_arr", <<>>)
    ELSE Raise("AttributeError", "mask_bool", <<>>)

\* AnnotationMask.mask_uint8: self.mask_bool.astype(np.uint8) * 255
mask_uint8(self) ==
  LET a == mask_bool(self)
  IN  IF a.kind # "ok" THEN a
      ELSE Return(ndarray("uint8", a.value.shape,
                          [idx \in Idx(a.value.shape) |-> (a.value.data[idx] * 255) % 256]),
                  <<>>)

(***************************************************************************)
(* The calls on the entity                                                 *)
(***************************************************************************)
\* _Annotation.__init__ run on a fresh object of class cls: the base class
\* instantiated, or the base initialiser applied to an AnnotationMask object
\* (AnnotationMask.__init__ itself never gets that far)
New_Annotation ==
  \E cls \in {"_Annotation", "AnnotationMask"}, c \in Collections, s \in Sources,
     data \in Records(bool_mask) :
    /\ annotation = NoObject
    /\ annotation' = Annotation_init([NoObject EXCEPT !.cls = cls], c, data, s)
    /\ call' = [NoCall EXCEPT !.op = "_Annotation", !.args = <<c, data, s>>]
    /\ result' = Return(None, <<>>)
    /\ UNCHANGED <<bool_mask, lookup, changes>>

\* AnnotationMask(collection, record, source)
New_AnnotationMask ==
  \E c \in Collections, s \in Sources, data \in Records(bool_mask) :
    LET made == AnnotationMask_init([NoObject EXCEPT !.cls = "AnnotationMask"], c, data, s)
    IN  /\ annotation = NoObject
        /\ annotation' = IF made.kind = "ok" THEN made.value ELSE annotation
        /\ call' = [NoCall EXCEPT !.op = "AnnotationMask", !.args = <<c, data, s>>]
        /\ result' = IF made.kind = "ok" THEN Return(None, <<>>) ELSE made
        /\ UNCHANGED <<bool_mask, lookup, changes>>

Get_collection ==
  /\ annotation # NoObject
  /\ call' = [NoCall EXCEPT !.op = "collection"]
  /\ result' = collection(annotation)
  /\ UNCHANGED <<bool_mask, annotation, lookup, changes>>

Get_source ==
  /\ annotation # NoObject
  /\ call' = [NoCall EXCEPT !.op = "source"]
  /\ result' = source(annotation)
  /\ UNCHANGED <<bool_mask, annotation, lookup, changes>>

Get_image_index ==
  /\ annotation # NoObject
  /\ call' = [NoCall EXCEPT !.op = "_image_index"]
  /\ result' = image_index(annotation)
  /\ UNCHANGED <<bool_mask, annotation, lookup, changes>>

Get_row_index ==
  /\ annotation # NoObject
  /\ call' = [NoCall EXCEPT !.op = "row_index"]
  /\ result' = row_index(annotation, lookup)
  /\ UNCHANGED <<bool_mask, annotation, lookup, changes>>

Get_imageset_id ==
  /\ annotation # NoObject
  /\ call' = [NoCall EXCEPT !.op = "_imageset_id"]
  /\ result' = imageset_id(annotation)
  /\ UNCHANGED <<bool_mask, annotation, lookup, changes>>

Get_mask_bool ==
  /\ annotation # NoObject
  /\ call' = [NoCall EXCEPT !.op = "mask_bool"]
  /\ result' = mask_bool(annotation)
  /\ UNCHANGED <<bool_mask, annotation, lookup, changes>>

Get_mask_uint8 ==
  /\ annotation # NoObject
  /\ call' = [NoCall EXCEPT !.op = "mask_uint8"]
  /\ result' = mask_uint8(annotation)
  /\ UNCHANGED <<bool_mask, annotation, lookup, changes>>

\* the collection replaces the lookup table it holds for a source
ChangeLookup ==
  \E key \in Keys, table \in Tables :
    /\ changes < MaxChanges
    /\ lookup[key] # table
    /\ lookup' = [lookup EXCEPT ![key] = table]
    /\ changes' = changes + 1
    /\ call' = [NoCall EXCEPT !.op = "_change_lookup"]
    /\ result' = NoResult
    /\ UNCHANGED <<bool_mask, annotation>>

InitEntity ==
  /\ bool_mask \in StoredMasks
  /\ call = NoCall
  /\ result = NoResult
  /\ annotation = NoObject
  /\ lookup = [key \in Keys |-> InitTable]
  /\ changes = 0

NextEntity ==
  \/ New_Annotation
  \/ New_AnnotationMask
  \/ Get_collection
  \/ Get_source
  \/ Get_image_index
  \/ Get_row_index
  \/ Get_imageset_id
  \/ Get_mask_bool
  \/ Get_mask_uint8
  \/ ChangeLookup

SpecEntity == InitEntity /\ [][NextEntity]_vars

(***************************************************************************)
(* Properties                                                              *)
(***************************************************************************)
IsBoolArray(a) == a.type = "ndarray" /\ a.dtype = "bool"

IsPlane(a) == IsBoolArray(a) /\ Len(a.shape) = 2

AllFalse(a) == \A idx \in Idx(a.shape) : a.data[idx] = 0

\* the rows and the columns of a plane that hold a true pixel
TrueRows(a) == {idx[1] : idx \in {p \in Idx(a.shape) : a.data[p] = 1}}

TrueCols(a) == {idx[2] : idx \in {p \in Idx(a.shape) : a.data[p] = 1}}

MinOf(S) == CHOOSE x \in S : \A y \in S : x <= y

MaxOf(S) == CHOOSE x \in S : \A y \in S : x >= y

\* the region of interest of a plane, from the extremes of its true pixels
ExpectedRoi(a) ==
  IF AllFalse(a)
    THEN [xmin |-> 0, xmax |-> 0, ymin |-> 0, ymax |-> 0, width |-> 0, height |-> 0]
    ELSE [xmin |-> MinOf(TrueCols(a)), xmax |-> MaxOf(TrueCols(a)),
          ymin |-> MinOf(TrueRows(a)), ymax |-> MaxOf(TrueRows(a)),
          width |-> MaxOf(TrueCols(a)) - MinOf(TrueCols(a)),
          height |-> MaxOf(TrueRows(a)) - MinOf(TrueRows(a))]

\* the integer-coercible class ids of the model and the integer each denotes
ExpectedInt ==
  (PyIntValue(3) :> 3) @@ (PyFloatValue(-15) :> -1) @@ (PyStrValue(<<"1", "2">>) :> 12)

ExpectedPrefix ==
  <<"d", "a", "t", "a", ":", "i", "m", "a", "g", "e", "/", "p", "n", "g", ";", "b", "a", "s", "e", "6", "4", ",">>

\* C1 (as claimed): decoding, through mask_bool, the record that
\* create_uploadable made of a 2-D boolean array gives back that array.
C1_RoundTrip ==
  (call.op = "mask_bool" /\ annotation.cls = "AnnotationMask") =>
    (result.kind = "ok" /\ result.value = bool_mask)

\* C2: for a 2-D boolean plane with a true pixel, top and bottom are the
\* smallest and largest row holding a true pixel, left and right the smallest
\* and largest such column; a single true pixel (r, c) gives (r, r, c, c) and
\* the all-true h x w plane gives (0, h-1, 0, w-1).
C2_BoundsAreExtremes ==
  (call.op = "get_bool_mask_bounds" /\ IsPlane(bool_mask) /\ ~AllFalse(bool_mask)) =>
    LET rows == TrueRows(bool_mask)
        cols == TrueCols(bool_mask)
        pixels == {p \in Idx(bool_mask.shape) : bool_mask.data[p] = 1}
        b == result.value
    IN  /\ result.kind = "ok"
        /\ b.top \in rows /\ \A r \in rows : b.top <= r
        /\ b.bottom \in rows /\ \A r \in rows : b.bottom >= r
        /\ b.left \in cols /\ \A c \in cols : b.left <= c
        /\ b.right \in cols /\ \A c \in cols : b.right >= c
        /\ \A p \in pixels :
             pixels = {p} =>
               b = [top |-> p[1], bottom |-> p[1], left |-> p[2], right |-> p[2]]
        /\ pixels = Idx(bool_mask.shape) =>
             b = [top |-> 0, bottom |-> bool_mask.shape[1] - 1,
                  left |-> 0, right |-> bool_mask.shape[2] - 1]

C2_Witness ==
  /\ call.op = "get_bool_mask_bounds"
  /\ IsPlane(bool_mask)
  /\ result.kind = "ok"
  /\ result.value.top < result.value.bottom
  /\ result.value.left < result.value.right
  /\ \E idx \in Idx(bool_mask.shape) : bool_mask.data[idx] = 0

\* C3: for an all-false mask (a plane, or a stack of planes) the bounds are
\* returned, not raised, and are all 0; the ROI create_uploadable builds
\* from an all-false plane has all six fields 0.
C3_EmptyMaskFallback ==
  /\ (/\ call.op = "get_bool_mask_bounds"
      /\ IsBoolArray(bool_mask)
      /\ Len(bool_mask.shape) \in {2, 3}
      /\ AllFalse(bool_mask))
       => result = [kind |-> "ok",
                    value |-> [top |-> 0, bottom |-> 0, left |-> 0, right |-> 0],
                    work |-> result.work]
  /\ (/\ call.op = "create_uploadable"
      /\ IsPlane(bool_mask)
      /\ AllFalse(bool_mask)
      /\ call.class_id \in DOMAIN ExpectedInt)
       => /\ result.kind = "ok"
          /\ result.value.annotation.roi =
               [xmin |-> 0, xmax |-> 0, ymin |-> 0, ymax |-> 0,
                width |-> 0, height |-> 0]

C3_Witness ==
  /\ call.op = "create_uploadable"
  /\ IsPlane(bool_mask)
  /\ bool_mask.shape = <<2, 3>>
  /\ AllFalse(bool_mask)
  /\ result.kind = "ok"
  /\ result.value.annotation.roi.width = 0

\* C4: the ROI of every uploadable holds non-negative integers with
\* xmin <= xmax, ymin <= ymax, width = xmax - xmin, height = ymax - ymin; the
\* 4x4 mask with the 2x2 square at rows 1-2, columns 1-2 has ROI
\* (xmin 1, xmax 2, ymin 1, ymax 2, width 1, height 1).
C4_RoiWellFormed ==
  (call.op = "create_uploadable" /\ result.kind = "ok") =>
    LET roi == result.value.annotation.roi
    IN  /\ \A k \in DOMAIN roi : roi[k] \in Nat
        /\ roi.xmin <= roi.xmax
        /\ roi.ymin <= roi.ymax
        /\ roi.width = roi.xmax - roi.xmin
        /\ roi.height = roi.ymax - roi.ymin
        /\ (bool_mask.shape = <<4, 4>>
              /\ \A idx \in Idx(<<4, 4>>) :
                   bool_mask.data[idx] = 1 <=> (idx[1] \in {1, 2} /\ idx[2] \in {1, 2}))
             => roi = [xmin |-> 1, xmax |-> 2, ymin |-> 1, ymax |-> 2,
                       width |-> 1, height |-> 1]

C4_Witness ==
  /\ call.op = "create_uploadable"
  /\ result.kind = "ok"
  /\ bool_mask.shape = <<4, 4>>
  /\ result.value.annotation.roi.xmin = 1
  /\ result.value.annotation.roi.height = 1

\* C5: create_uploadable rejects a non-boolean array with the dtype
\* assertion and a boolean array that is not 2-D with the shape assertion,
\* in both cases before any encoding stage has run and with no uploadable
\* returned; get_bool_mask_bounds rejects a non-boolean array with the dtype
\* assertion.
C5_TypeRejection ==
  /\ (call.op = "create_uploadable" /\ bool_mask.type = "ndarray"
        /\ bool_mask.dtype # "bool")
       => result = [kind |-> "AssertionError", value |-> "dtype", work |-> <<>>]
  /\ (call.op = "create_uploadable" /\ IsBoolArray(bool_mask)
        /\ Len(bool_mask.shape) # 2)
       => result = [kind |-> "AssertionError", value |-> "shape", work |-> <<>>]
  /\ (call.op = "get_bool_mask_bounds" /\ bool_mask.type = "ndarray"
        /\ bool_mask.dtype # "bool")
       => result = [kind |-> "AssertionError", value |-> "dtype", work |-> <<>>]

C5_Witness ==
  /\ call.op = "create_uploadable"
  /\ bool_mask.type = "ndarray"
  /\ bool_mask.dtype = "int64"
  /\ Len(bool_mask.shape) = 4
  /\ result.kind = "AssertionError"
  /\ result.value = "dtype"

\* C6: for an h x w boolean plane and an integer-coercible class_id the
\* uploadable has type 'mask', format '1UC1', class_id = int(class_id) and an
\* annotation with width w, height h, score None, the ROI of the plane and a
\* mask string that starts with 'data:image/png;base64,'.
C6_UploadableStructure ==
  (call.op = "create_uploadable" /\ IsPlane(bool_mask)
     /\ call.class_id \in DOMAIN ExpectedInt) =>
    /\ result.kind = "ok"
    /\ LET u == result.value
           a == result.value.annotation
       IN  /\ DOMAIN u = {"type", "format", "annotation", "class_id"}
           /\ u.type = "mask"
           /\ u.format = "1UC1"
           /\ u.class_id = ExpectedInt[call.class_id]
           /\ DOMAIN a = {"mask", "width", "height", "score", "roi"}
           /\ a.width = bool_mask.shape[2]
           /\ a.height = bool_mask.shape[1]
           /\ a.score = None
           /\ a.roi = ExpectedRoi(bool_mask)
           /\ Len(a.mask) > Len(ExpectedPrefix)
           /\ SubSeq(a.mask, 1, Len(ExpectedPrefix)) = ExpectedPrefix

C6_Witness ==
  /\ call.op = "create_uploadable"
  /\ IsPlane(bool_mask)
  /\ bool_mask.shape = <<2, 4>>
  /\ call.class_id = PyFloatValue(-15)
  /\ result.kind = "ok"
  /\ result.value.class_id = -1
  /\ result.value.annotation.width = 4

C8_Constructed ==
  (call.op = "AnnotationMask") =>
    /\ result.kind = "ok"
    /\ annotation.cls = "AnnotationMask"
    /\ annotation._collection = call.args[1]
    /\ annotation._data = call.args[2]
    /\ annotation._source = call.args[3]

\* C9: every access of row_index returns the position of the record's
\* image_index in the table the collection holds for the source at that
\* moment (so an access after a change of the table reflects the new table),
\* and raises the lookup's ValueError when the table lacks the image_index.
C9_RowIndexFromCurrentTable ==
  (call.op = "row_index" /\ "image_index" \in DOMAIN annotation._data) =>
    LET table == lookup[<<annotation._collection, annotation._source>>]
        x == annotation._data.image_index
    IN  IF \E p \in 1..Len(table) : table[p] = x
          THEN /\ result.kind = "ok"
               /\ result.value \in 0..(Len(table) - 1)
               /\ table[result.value + 1] = x
               /\ \A q \in 1..result.value : table[q] # x
          ELSE result.kind = "ValueError"

C9_Witness ==
  /\ call.op = "row_index"
  /\ changes > 0
  /\ "image_index" \in DOMAIN annotation._data
  /\ result.kind = "ok"
  /\ InitTable[result.value + 1] # annotation._data.image_index

\* C10: reading the image index of a record without the 'image_index' key
\* raises an AssertionError whose message names that key, and never returns
\* a value; with the key present the stored value is returned.
C10_ImageIndex ==
  (call.op = "_image_index") =>
    IF "image_index" \in DOMAIN annotation._data
      THEN result.kind = "ok" /\ result.value = annotation._data.image_index
      ELSE result.kind = "AssertionError" /\ result.value = "image_index"

C10_Witness ==
  /\ call.op = "_image_index"
  /\ "image_index" \notin DOMAIN annotation._data
  /\ result.kind = "AssertionError"

====
